---- MODULE Spec2Model ----
\* Flashcard scheduler, mastery classification and quiz scorer of the
\* TurboLearn server, modelled over the shared document store.
\* Every database round trip of a request handler is one atomic step; the
\* code between two awaits runs with the step that follows the first await.
EXTENDS Integers, Sequences, FiniteSets, TLC

\* ---------------------------------------------------------------- bounds
MaxTime == 3
MaxCards == 2
MaxReviews == 2
MaxLimit == 1
MaxSlots == 2
MaxRequests == 3
MaxCount == 12
MaxQuestions == 2
MaxAnswers == 2
MaxAttempts == 2
MaxText == 3

\* ------------------------------------------------------------ constants
\* One clock unit is 24 hours: 24 * 60 * 60 * 1000 ms.
DAY == 1
\* `limit = 20` of getForReview and of the review route.
DefaultLimit == 20

Users == {"u1", "u2"}
ContentIds == {1, 2}
Difficulties == {"easy", "medium", "hard"}
\* The difficulties the generated cards of the store specifications take.
GenDifficulties == {"medium"}
\* lastReviewed: null, ordered below every date.
NULL == -1
\* A review query without a limit parameter.
NoLimit == -1
Slots == 1..MaxSlots
Idle == [op |-> "idle"]
NoResp == [op |-> "none"]
NoProbe == [doc |-> "none"]
NoSubmission == [shape |-> "none"]
\* Point weights of the generated questions, and submitted timeSpent values.
PointValues == {1, 3, 7}
TimeSpentValues == {-1, 5}

VARIABLES
  now,          \* the wall clock read by new Date()
  contents,     \* Content collection: _id -> [userId]
  flashcards,   \* Flashcard collection: _id -> document
  reqs,         \* request handlers suspended at an await, by slot
  resp,         \* the response sent by the last step, if it sent one
  reviewsDone,  \* per flashcard, the number of successful review requests
  probe,        \* a flashcard document held in memory and its mastery levels
  quizzes,      \* Quiz collection: _id -> document
  submission,   \* the body of the quiz attempt requests
  attemptsDone  \* per quiz, the number of successful attempt requests

vars == <<now, contents, flashcards, reqs, resp, reviewsDone, probe, quizzes, submission, attemptsDone>>

Min(a, b) == IF a < b THEN a ELSE b

\* --------------------------------------------------- Flashcard model
\* new Flashcard({contentId, question, answer, difficulty, tags}) with the
\* schema defaults lastReviewed: null and reviewCount: 0.
NewFlashcard(c, d) ==
  [contentId |-> c, difficulty |-> d, lastReviewed |-> NULL, reviewCount |-> 0]

\* difficultyMultiplier, doubled to stay in the integers (1, 1.5, 2).
difficultyMultiplier2(d) ==
  CASE d = "easy" -> 2
    [] d = "medium" -> 3
    [] d = "hard" -> 4

\* Variant of masteryLevel in which hard cards weigh as medium ones.
masteryLevel_NoHardBonus(reviewCount, difficulty) ==
  LET score2 == reviewCount * 10 * (IF difficulty = "hard" THEN 3 ELSE difficultyMultiplier2(difficulty))
  IN  IF score2 >= 200 THEN "mastered"
      ELSE IF score2 >= 100 THEN "proficient"
      ELSE IF score2 >= 40 THEN "learning"
      ELSE "new"

\* flashcardSchema.virtual('masteryLevel'); score2 is twice the score.
masteryLevel(reviewCount, difficulty) ==
  LET baseScore == reviewCount * 10
      score2 == baseScore * difficultyMultiplier2(difficulty)
  IN  IF score2 >= 200 THEN "mastered"
      ELSE IF score2 >= 100 THEN "proficient"
      ELSE IF score2 >= 40 THEN "learning"
      ELSE "new"

\* Variant of markReviewed that only stamps the date.
markReviewed_NoIncrement(doc, t) ==
  [doc EXCEPT !.lastReviewed = t]

\* flashcardSchema.methods.markReviewed, the in-memory part:
\* this.lastReviewed = new Date(); this.reviewCount += 1.
markReviewed(doc, t) ==
  [doc EXCEPT !.lastReviewed = t, !.reviewCount = @ + 1]

\* Variant of saveReviewed that writes reviewCount alone.
saveReviewed_CountOnly(stored, doc) ==
  [stored EXCEPT !.reviewCount = doc.reviewCount]

\* Variant of saveReviewed that writes lastReviewed alone.
saveReviewed_DateOnly(stored, doc) ==
  [stored EXCEPT !.lastReviewed = doc.lastReviewed]

\* Variant of saveReviewed that also writes the difficulty the schema defaults to.
saveReviewed_WithDefaults(stored, doc) ==
  [stored EXCEPT !.lastReviewed = doc.lastReviewed, !.reviewCount = doc.reviewCount,
                 !.difficulty = "medium"]

\* this.save() of a loaded document: $set of the modified paths only.
saveReviewed(stored, doc) ==
  [stored EXCEPT !.lastReviewed = doc.lastReviewed, !.reviewCount = doc.reviewCount]

\* Variant of matchesReview without the `lastReviewed: null` branch.
matchesReview_NoNull(fc, c, oneDayAgo) ==
  /\ fc.contentId = c
  /\ fc.lastReviewed # NULL /\ fc.lastReviewed < oneDayAgo

\* Variant of matchesReview with $lte in place of $lt.
matchesReview_Lte(fc, c, oneDayAgo) ==
  /\ fc.contentId = c
  /\ \/ (fc.lastReviewed # NULL /\ fc.lastReviewed <= oneDayAgo)
     \/ fc.lastReviewed = NULL

\* Variant of matchesReview whose interval is 3 days from the second review.
matchesReview_Spaced(fc, c, oneDayAgo) ==
  /\ fc.contentId = c
  /\ \/ (fc.lastReviewed # NULL /\ fc.reviewCount < 2 /\ fc.lastReviewed < oneDayAgo)
     \/ (fc.lastReviewed # NULL /\ fc.reviewCount >= 2 /\ fc.lastReviewed < oneDayAgo - 2 * DAY)
     \/ fc.lastReviewed = NULL

\* The filter of getForReview: contentId, and lastReviewed < oneDayAgo or
\* lastReviewed null ($lt never matches null).
matchesReview(fc, c, oneDayAgo) ==
  /\ fc.contentId = c
  /\ \/ (fc.lastReviewed # NULL /\ fc.lastReviewed < oneDayAgo)
     \/ fc.lastReviewed = NULL

\* Variant of sortBefore with the sort keys in the opposite order.
sortBefore_CountFirst(a, b) ==
  \/ a.reviewCount < b.reviewCount
  \/ a.reviewCount = b.reviewCount /\ a.lastReviewed <= b.lastReviewed

\* .sort({ lastReviewed: 1, reviewCount: 1 }): null sorts before every date.
sortBefore(a, b) ==
  \/ (a.lastReviewed = NULL /\ b.lastReviewed # NULL)
  \/ (a.lastReviewed # NULL /\ b.lastReviewed # NULL /\ a.lastReviewed < b.lastReviewed)
  \/ (a.lastReviewed = b.lastReviewed /\ a.reviewCount <= b.reviewCount)

\* All orders the store may return the set S in under the sort; documents
\* with equal sort keys come in any order.
Sorted(S, docs) ==
  { s \in [1..Cardinality(S) -> S] :
      /\ \A i, j \in 1..Cardinality(S) : i # j => s[i] # s[j]
      /\ \A i, j \in 1..Cardinality(S) : i < j => sortBefore(docs[s[i]], docs[s[j]]) }

\* .limit(n): a limit of 0 is no limit.
limit(s, n) ==
  IF n = 0 THEN s ELSE SubSeq(s, 1, Min(n, Len(s)))

\* `const { limit = 20 } = req.query; parseInt(limit)`.
parseLimit(q) == IF q = NoLimit THEN DefaultLimit ELSE q

\* Variant of ownsContent that does not filter by userId.
ownsContent_AnyUser(u, c) == c \in DOMAIN contents

\* Variant of ownsContent that lets any caller through when the content is
\* no longer stored.
ownsContent_Orphan(u, c) == c \notin DOMAIN contents \/ contents[c].userId = u

\* Content.findOne({ _id: c, userId: u }) finds a document.
ownsContent(u, c) == c \in DOMAIN contents /\ contents[c].userId = u

FreeSlot(s) == reqs[s] = Idle /\ \A t \in Slots : t < s => reqs[t] # Idle

\* ------------------------------------------------------------- actions
\* Time passes.
Tick ==
  /\ now < MaxTime
  /\ now' = now + 1
  /\ resp' = NoResp
  /\ UNCHANGED <<contents, flashcards, reqs, reviewsDone, probe, quizzes, submission, attemptsDone>>

\* Variant of DeleteContent that also removes the flashcards and quizzes of
\* the content.
DeleteContent_Cascade(u, c) ==
  /\ IF ownsContent(u, c)
       THEN /\ contents' = [d \in DOMAIN contents \ {c} |-> contents[d]]
            /\ flashcards' = [f \in { g \in DOMAIN flashcards : flashcards[g].contentId # c }
                                |-> flashcards[f]]
            /\ quizzes' = [q \in { g \in DOMAIN quizzes : quizzes[g].contentId # c }
                             |-> quizzes[q]]
            /\ resp' = [op |-> "delete", status |-> 200]
       ELSE /\ resp' = [op |-> "delete", status |-> 404]
            /\ UNCHANGED <<contents, flashcards, quizzes>>
  /\ UNCHANGED <<now, reqs, reviewsDone, probe, submission, attemptsDone>>

\* DELETE /api/content/:id.
DeleteContent(u, c) ==
  /\ IF ownsContent(u, c)
       THEN /\ contents' = [d \in DOMAIN contents \ {c} |-> contents[d]]
            /\ resp' = [op |-> "delete", status |-> 200]
       ELSE /\ resp' = [op |-> "delete", status |-> 404]
            /\ UNCHANGED contents
  /\ UNCHANGED <<now, flashcards, reqs, reviewsDone, probe, quizzes, submission, attemptsDone>>

\* POST /api/ai/flashcards: one Flashcard per generated card.
GenerateFlashcards(u, c, ds) ==
  /\ Len(ds) >= 1
  /\ Cardinality(DOMAIN flashcards) + Len(ds) <= MaxCards
  /\ IF ownsContent(u, c)
       THEN LET n == Cardinality(DOMAIN flashcards)
            IN  /\ flashcards' = [f \in 1..(n + Len(ds)) |->
                                    IF f <= n THEN flashcards[f] ELSE NewFlashcard(c, ds[f - n])]
                /\ reviewsDone' = [f \in 1..(n + Len(ds)) |->
                                    IF f <= n THEN reviewsDone[f] ELSE 0]
                /\ resp' = [op |-> "generate", status |-> 200]
       ELSE /\ resp' = [op |-> "generate", status |-> 404]
            /\ UNCHANGED <<flashcards, reviewsDone>>
  /\ UNCHANGED <<now, contents, reqs, probe, quizzes, submission, attemptsDone>>

\* POST /api/ai/flashcards/:id/review, up to the first await's result:
\* Flashcard.findById(id).
ReviewFind(s, u, f) ==
  /\ FreeSlot(s)
  /\ IF f \in DOMAIN flashcards
       THEN /\ reviewsDone[f] + Cardinality({t \in Slots : reqs[t] # Idle /\ reqs[t].id = f}) < MaxRequests
            /\ reqs' = [reqs EXCEPT ![s] =
                 [op |-> "review", pc |-> "own", user |-> u, id |-> f,
                  doc |-> flashcards[f], callTime |-> now,
                  readCount |-> flashcards[f].reviewCount]]
            /\ resp' = NoResp
       ELSE /\ resp' = [op |-> "review", status |-> 404]
            /\ UNCHANGED reqs
  /\ UNCHANGED <<now, contents, flashcards, reviewsDone, probe, quizzes, submission, attemptsDone>>

\* ... Content.findOne({_id: flashcard.contentId, userId}), then the
\* synchronous part of flashcard.markReviewed().
ReviewOwn(s) ==
  /\ reqs[s].op = "review" /\ reqs[s].pc = "own"
  /\ IF ownsContent(reqs[s].user, reqs[s].doc.contentId)
       THEN /\ reqs' = [reqs EXCEPT ![s].doc = markReviewed(@, now), ![s].pc = "save"]
            /\ resp' = NoResp
       ELSE /\ reqs' = [reqs EXCEPT ![s] = Idle]
            /\ resp' = [op |-> "review", status |-> 403]
  /\ UNCHANGED <<now, contents, flashcards, reviewsDone, probe, quizzes, submission, attemptsDone>>

\* ... the store applies this.save(), and the response is sent.
ReviewSave(s) ==
  /\ reqs[s].op = "review" /\ reqs[s].pc = "save"
  /\ LET r == reqs[s]
     IN  /\ flashcards' = [flashcards EXCEPT ![r.id] = saveReviewed(@, r.doc)]
         /\ reviewsDone' = [reviewsDone EXCEPT ![r.id] = @ + 1]
         /\ resp' = [op |-> "review", status |-> 200, id |-> r.id,
                     callTime |-> r.callTime,
                     readCount |-> r.readCount,
                     reviewCount |-> r.doc.reviewCount,
                     lastReviewed |-> r.doc.lastReviewed,
                     masteryLevel |-> masteryLevel(r.doc.reviewCount, r.doc.difficulty)]
  /\ reqs' = [reqs EXCEPT ![s] = Idle]
  /\ UNCHANGED <<now, contents, probe, quizzes, submission, attemptsDone>>

\* POST /api/ai/flashcards/:id/review, the whole handler when no other
\* request runs between its awaits.
markFlashcardReviewed(u, f) ==
  /\ IF f \notin DOMAIN flashcards
       THEN /\ resp' = [op |-> "review", status |-> 404]
            /\ UNCHANGED <<flashcards, reviewsDone>>
       ELSE IF ~ownsContent(u, flashcards[f].contentId)
       THEN /\ resp' = [op |-> "review", status |-> 403]
            /\ UNCHANGED <<flashcards, reviewsDone>>
       ELSE LET doc == markReviewed(flashcards[f], now)
            IN  /\ flashcards[f].reviewCount < MaxReviews
                /\ flashcards' = [flashcards EXCEPT ![f] = saveReviewed(@, doc)]
                /\ reviewsDone' = [reviewsDone EXCEPT ![f] = @ + 1]
                /\ resp' = [op |-> "review", status |-> 200, id |-> f,
                            callTime |-> now,
                            readCount |-> flashcards[f].reviewCount,
                            reviewCount |-> doc.reviewCount,
                            lastReviewed |-> doc.lastReviewed,
                            masteryLevel |-> masteryLevel(doc.reviewCount, doc.difficulty)]
  /\ UNCHANGED <<now, contents, reqs, probe, quizzes, submission, attemptsDone>>

\* GET /api/ai/flashcards/:contentId/review: the ownership check, then
\* Flashcard.getForReview(contentId, parseInt(limit)).
getForReview(u, c, q) ==
  /\ IF ownsContent(u, c)
       THEN LET oneDayAgo == now - DAY
                S == { f \in DOMAIN flashcards : matchesReview(flashcards[f], c, oneDayAgo) }
            IN  \E sorted \in Sorted(S, flashcards) :
                  resp' = [op |-> "due", status |-> 200, contentId |-> c,
                           query |-> q, limit |-> parseLimit(q),
                           flashcards |-> limit(sorted, parseLimit(q))]
       ELSE resp' = [op |-> "due", status |-> 404]
  /\ UNCHANGED <<now, contents, flashcards, reqs, reviewsDone, probe, quizzes, submission, attemptsDone>>

Init ==
  /\ now = 0
  /\ contents = (1 :> [userId |-> "u1"]) @@ (2 :> [userId |-> "u2"])
  /\ flashcards = <<>>
  /\ reqs = [s \in Slots |-> Idle]
  /\ resp = NoResp
  /\ reviewsDone = <<>>
  /\ probe = NoProbe
  /\ quizzes = <<>>
  /\ submission = NoSubmission
  /\ attemptsDone = <<>>

DifficultyLists == UNION { [1..n -> GenDifficulties] : n \in 1..MaxCards }
Limits == {NoLimit} \cup 0..MaxLimit

\* The requests served one at a time.
Next ==
  \/ Tick
  \/ \E u \in Users, c \in ContentIds, ds \in DifficultyLists : GenerateFlashcards(u, c, ds)
  \/ \E u \in Users, f \in 1..MaxCards : markFlashcardReviewed(u, f)
  \/ \E u \in Users, c \in ContentIds, q \in Limits : getForReview(u, c, q)

Spec == Init /\ [][Next]_vars

\* Review requests interleaved at their awaits, on a store that holds one
\* content and one flashcard of it.
InitConc ==
  /\ now = 0
  /\ contents = (1 :> [userId |-> "u1"])
  /\ flashcards = (1 :> NewFlashcard(1, "medium"))
  /\ reqs = [s \in Slots |-> Idle]
  /\ resp = NoResp
  /\ reviewsDone = (1 :> 0)
  /\ probe = NoProbe
  /\ quizzes = <<>>
  /\ submission = NoSubmission
  /\ attemptsDone = <<>>

NextConc ==
  \/ Tick
  \/ \E u \in Users, c \in ContentIds : DeleteContent(u, c)
  \/ \E s \in Slots, u \in Users, f \in 1..MaxCards : ReviewFind(s, u, f)
  \/ \E s \in Slots : ReviewOwn(s)
  \/ \E s \in Slots : ReviewSave(s)

SpecConc == InitConc /\ [][NextConc]_vars

\* The same requests and deletions at one instant: the clock plays no part
\* in the ownership check.
NextAccess ==
  \/ \E u \in Users, c \in ContentIds : DeleteContent(u, c)
  \/ \E s \in Slots, u \in Users, f \in 1..MaxCards : ReviewFind(s, u, f)
  \/ \E s \in Slots : ReviewOwn(s)
  \/ \E s \in Slots : ReviewSave(s)

SpecAccess == InitConc /\ [][NextAccess]_vars

\* ---------------------------------------------------------- Quiz model
\* new Quiz({contentId, title, description, questions, timeLimit,
\* passingScore}); a question's _id is its position in the list.
NewQuiz(c, questions, passingScore) ==
  [contentId |-> c, questions |-> questions, passingScore |-> passingScore,
   attempts |-> <<>>]

\* Variant of findAnswer that takes the last match.
findAnswer_Last(answers, questionId) ==
  LET hits == { i \in 1..Len(answers) : answers[i].questionId = questionId }
  IN  IF hits = {} THEN 0 ELSE CHOOSE i \in hits : \A j \in hits : j <= i

\* answers.find(a => a.questionId === question._id.toString()): the index
\* of the first match, 0 for undefined.
findAnswer(answers, questionId) ==
  LET hits == { i \in 1..Len(answers) : answers[i].questionId = questionId }
  IN  IF hits = {} THEN 0 ELSE CHOOSE i \in hits : \A j \in hits : i <= j

\* Variant of scorePoints in which every correct-flagged answer of a
\* question earns its weight.
RECURSIVE scorePoints_EveryAnswer(_, _, _)
scorePoints_EveryAnswer(questions, answers, n) ==
  IF n = 0 THEN <<0, 0>>
  ELSE LET before == scorePoints_EveryAnswer(questions, answers, n - 1)
           correct == { i \in 1..Len(answers) :
                          answers[i].questionId = n /\ answers[i].isCorrect }
       IN  <<before[1] + questions[n].points,
             before[2] + Cardinality(correct) * questions[n].points>>

\* The forEach of calculateScore over questions 1..n: <<totalPoints, earnedPoints>>.
RECURSIVE scorePoints(_, _, _)
scorePoints(questions, answers, n) ==
  IF n = 0 THEN <<0, 0>>
  ELSE LET before == scorePoints(questions, answers, n - 1)
           answer == findAnswer(answers, n)
           earned == IF answer # 0 /\ answers[answer].isCorrect
                       THEN questions[n].points ELSE 0
       IN  <<before[1] + questions[n].points, before[2] + earned>>

\* Math.round((earnedPoints / totalPoints) * 100): halves round up.
roundPercent(earnedPoints, totalPoints) ==
  (200 * earnedPoints + totalPoints) \div (2 * totalPoints)

\* Variant of calculateScore without the totalPoints > 0 guard: 0 / 0 is
\* NaN, written -1 here.
calculateScore_NoGuard(questions, answers) ==
  LET p == scorePoints(questions, answers, Len(questions))
  IN  IF p[1] = 0 THEN -1 ELSE roundPercent(p[2], p[1])

\* quizSchema.methods.calculateScore.
calculateScore(questions, answers) ==
  LET p == scorePoints(questions, answers, Len(questions))
      totalPoints == p[1]
      earnedPoints == p[2]
  IN  IF totalPoints > 0 THEN roundPercent(earnedPoints, totalPoints) ELSE 0

\* Variant of addAttempt that stamps the attempt with the creation time of
\* the quiz instead of the time of the call.
addAttempt_NoClock(quiz, userId, answers, timeSpent, t) ==
  [quiz EXCEPT !.attempts = Append(@,
     [userId |-> userId, score |-> calculateScore(quiz.questions, answers),
      answers |-> answers, completedAt |-> 0, timeSpent |-> timeSpent])]

\* quizSchema.methods.addAttempt, the in-memory part: score and push.
addAttempt(quiz, userId, answers, timeSpent, t) ==
  [quiz EXCEPT !.attempts = Append(@,
     [userId |-> userId, score |-> calculateScore(quiz.questions, answers),
      answers |-> answers, completedAt |-> t, timeSpent |-> timeSpent])]

\* Variant of validAttemptBody without the timeSpent validator.
validAttemptBody_ArrayOnly(body) == body.shape # "notArray"

\* The validators of the attempt route: answers is an array, timeSpent is
\* an integer >= 0.
validAttemptBody(body) == body.shape # "notArray" /\ body.timeSpent >= 0

\* Validation of the pushed attempt by save(): every answer has questionId,
\* answer, isCorrect and points; score and timeSpent are >= 0.
validAttempt(body, attempt) ==
  body.shape = "list" /\ attempt.score >= 0 /\ attempt.timeSpent >= 0

\* POST /api/ai/quiz/:id/attempt with the body `submission`, the whole
\* handler when no other request runs between its awaits.
recordQuizAttempt(u, id) ==
  /\ IF ~validAttemptBody(submission)
       THEN /\ resp' = [op |-> "attempt", status |-> 400]
            /\ UNCHANGED <<quizzes, attemptsDone>>
       ELSE IF id \notin DOMAIN quizzes
       THEN /\ resp' = [op |-> "attempt", status |-> 404]
            /\ UNCHANGED <<quizzes, attemptsDone>>
       ELSE IF ~ownsContent(u, quizzes[id].contentId)
       THEN /\ resp' = [op |-> "attempt", status |-> 403]
            /\ UNCHANGED <<quizzes, attemptsDone>>
       ELSE LET quiz == addAttempt(quizzes[id], u, submission.answers, submission.timeSpent, now)
                attempt == quiz.attempts[Len(quiz.attempts)]
            IN  IF validAttempt(submission, attempt)
                  THEN /\ Len(quizzes[id].attempts) < MaxAttempts
                       /\ quizzes' = [quizzes EXCEPT ![id].attempts = Append(@, attempt)]
                       /\ attemptsDone' = [attemptsDone EXCEPT ![id] = @ + 1]
                       /\ resp' = [op |-> "attempt", status |-> 200, id |-> id,
                                   score |-> attempt.score,
                                   totalAttempts |-> Len(quiz.attempts)]
                  ELSE /\ resp' = [op |-> "attempt", status |-> 500]
                       /\ UNCHANGED <<quizzes, attemptsDone>>
  /\ UNCHANGED <<now, contents, flashcards, reqs, reviewsDone, probe, submission>>

QuestionLists == UNION { [1..n -> [points : PointValues]] : n \in 0..MaxQuestions }
AnswerLists ==
  UNION { [1..n -> [questionId : 1..MaxQuestions, isCorrect : BOOLEAN]] : n \in 0..MaxAnswers }
Bodies ==
  { b \in [answers : AnswerLists, timeSpent : TimeSpentValues,
           shape : {"list", "malformed", "notArray"}] :
      /\ b.shape = "malformed" => Len(b.answers) >= 1
      /\ b.shape = "notArray" => b.answers = <<>> }

\* The store holds one quiz of the first content, generated with any
\* question list; the client submits one body, any number of times.
InitQuiz ==
  /\ now = 0
  /\ contents = (1 :> [userId |-> "u1"]) @@ (2 :> [userId |-> "u2"])
  /\ flashcards = <<>>
  /\ reqs = [s \in Slots |-> Idle]
  /\ resp = NoResp
  /\ reviewsDone = <<>>
  /\ probe = NoProbe
  /\ \E questions \in QuestionLists : quizzes = (1 :> NewQuiz(1, questions, 70))
  /\ submission \in Bodies
  /\ attemptsDone = (1 :> 0)

NextQuiz ==
  \E u \in Users, id \in {1, 2} : recordQuizAttempt(u, id)

SpecQuiz == InitQuiz /\ [][NextQuiz]_vars

\* ------------------------------------------ interleaved quiz attempts
\* Variant of pushAttempt that puts the new element first.
pushAttempt_Prepend(stored, doc) ==
  [stored EXCEPT !.attempts = <<doc.attempts[Len(doc.attempts)]>> \o @]

\* Variant of pushAttempt that writes the whole array of the request's copy.
pushAttempt_SetArray(stored, doc) ==
  [stored EXCEPT !.attempts = doc.attempts]

\* this.save() after this.attempts.push(attempt): the update is a $push of
\* the new element onto the stored array, which is not checked against the
\* version the request loaded.
pushAttempt(stored, doc) ==
  [stored EXCEPT !.attempts = Append(@, doc.attempts[Len(doc.attempts)])]

\* The bodies of the interleaved requests: one answer to the first question,
\* flagged correct or not.
ConcBodies ==
  { b \in Bodies : /\ b.shape = "list" /\ b.timeSpent >= 0
                   /\ Len(b.answers) = 1 /\ b.answers[1].questionId = 1 }

\* POST /api/ai/quiz/:id/attempt, up to the first await's result: the
\* validators, then Quiz.findById(id).
AttemptFind(s, u, id, body) ==
  /\ FreeSlot(s)
  /\ IF ~validAttemptBody(body)
       THEN /\ resp' = [op |-> "attempt", status |-> 400]
            /\ UNCHANGED reqs
       ELSE IF id \notin DOMAIN quizzes
       THEN /\ resp' = [op |-> "attempt", status |-> 404]
            /\ UNCHANGED reqs
       ELSE /\ attemptsDone[id] + Cardinality({t \in Slots : reqs[t] # Idle /\ reqs[t].id = id}) < MaxAttempts
            /\ reqs' = [reqs EXCEPT ![s] =
                 [op |-> "attempt", pc |-> "own", user |-> u, id |-> id,
                  doc |-> quizzes[id], body |-> body]]
            /\ resp' = NoResp
  /\ UNCHANGED <<now, contents, flashcards, reviewsDone, probe, quizzes, submission, attemptsDone>>

\* ... Content.findOne({_id: quiz.contentId, userId}), then the synchronous
\* part of quiz.addAttempt(): the score and the push on the loaded document.
AttemptOwn(s) ==
  /\ reqs[s].op = "attempt" /\ reqs[s].pc = "own"
  /\ LET r == reqs[s]
     IN  IF ownsContent(r.user, r.doc.contentId)
           THEN /\ reqs' = [reqs EXCEPT
                      ![s].doc = addAttempt(r.doc, r.user, r.body.answers, r.body.timeSpent, now),
                      ![s].pc = "save"]
                /\ resp' = NoResp
           ELSE /\ reqs' = [reqs EXCEPT ![s] = Idle]
                /\ resp' = [op |-> "attempt", status |-> 403]
  /\ UNCHANGED <<now, contents, flashcards, reviewsDone, probe, quizzes, submission, attemptsDone>>

\* ... the store applies this.save(), and the response is built from the
\* request's own copy of the document.
AttemptSave(s) ==
  /\ reqs[s].op = "attempt" /\ reqs[s].pc = "save"
  /\ LET r == reqs[s]
         attempt == r.doc.attempts[Len(r.doc.attempts)]
     IN  IF validAttempt(r.body, attempt)
           THEN /\ quizzes' = [quizzes EXCEPT ![r.id] = pushAttempt(@, r.doc)]
                /\ attemptsDone' = [attemptsDone EXCEPT ![r.id] = @ + 1]
                /\ resp' = [op |-> "attempt", status |-> 200, id |-> r.id,
                            score |-> attempt.score,
                            totalAttempts |-> Len(r.doc.attempts)]
           ELSE /\ resp' = [op |-> "attempt", status |-> 500]
                /\ UNCHANGED <<quizzes, attemptsDone>>
  /\ reqs' = [reqs EXCEPT ![s] = Idle]
  /\ UNCHANGED <<now, contents, flashcards, reviewsDone, probe, submission>>

\* The store holds one content and one quiz of it, with questions of 1 and
\* 3 points.
InitQuizConc ==
  /\ now = 0
  /\ contents = (1 :> [userId |-> "u1"])
  /\ flashcards = <<>>
  /\ reqs = [s \in Slots |-> Idle]
  /\ resp = NoResp
  /\ reviewsDone = <<>>
  /\ probe = NoProbe
  /\ quizzes = (1 :> NewQuiz(1, <<[points |-> 1], [points |-> 3]>>, 70))
  /\ submission = NoSubmission
  /\ attemptsDone = (1 :> 0)

NextQuizConc ==
  \/ Tick
  \/ \E u \in Users, c \in ContentIds : DeleteContent(u, c)
  \/ \E s \in Slots, u \in Users, id \in {1, 2}, body \in ConcBodies : AttemptFind(s, u, id, body)
  \/ \E s \in Slots : AttemptOwn(s)
  \/ \E s \in Slots : AttemptSave(s)

SpecQuizConc == InitQuizConc /\ [][NextQuizConc]_vars

\* ------------------------------------------- mastery of one document
\* A flashcard document of any difficulty and review count, on which
\* markReviewed is called repeatedly; masteryLevel is read after each call.
InitMastery ==
  /\ now = 0
  /\ contents = (1 :> [userId |-> "u1"]) @@ (2 :> [userId |-> "u2"])
  /\ flashcards = <<>>
  /\ reqs = [s \in Slots |-> Idle]
  /\ resp = NoResp
  /\ reviewsDone = <<>>
  /\ quizzes = <<>>
  /\ submission = NoSubmission
  /\ attemptsDone = <<>>
  /\ \E d \in Difficulties, n \in 0..MaxCount :
       probe = [doc |-> [NewFlashcard(1, d) EXCEPT !.reviewCount = n],
                first |-> n,
                firstLevel |-> masteryLevel(n, d),
                level |-> masteryLevel(n, d)]

ProbeReviewed ==
  /\ probe.doc.reviewCount < MaxCount
  /\ LET doc == markReviewed(probe.doc, now)
     IN  probe' = [probe EXCEPT !.doc = doc,
                                !.level = masteryLevel(doc.reviewCount, doc.difficulty)]
  /\ UNCHANGED <<now, contents, flashcards, reqs, resp, reviewsDone, quizzes, submission, attemptsDone>>

NextMastery == ProbeReviewed

SpecMastery == InitMastery /\ [][NextMastery]_vars

\* ------------------------------------------------- content statistics
\* Stored text, a sequence of characters: a letter or a blank.
Chars == {"a", " "}
Texts == UNION { [1..n -> Chars] : n \in 1..MaxText }
\* The types the creating routes store: upload, url, youtube.
CreatedTypes == {"document", "article", "video"}
Counters ==
  {"totalContent", "totalWords", "documentCount", "videoCount", "articleCount", "noteCount"}
\* The object literal {}.
EmptyObject == [k \in {} |-> 0]

\* contentSchema.virtual('wordCount'):
\* content.split(/\s+/).filter(word => word.length > 0).length.
wordCount(text) ==
  Cardinality({ i \in 1..Len(text) : text[i] # " " /\ (i = 1 \/ text[i - 1] = " ") })

\* $strLenCP: the number of code points of the string.
strLenCP(text) == Len(text)

\* $sum over the matched documents.
RECURSIVE sumOf(_, _)
sumOf(S, value) ==
  IF S = {} THEN 0
  ELSE LET c == CHOOSE d \in S : TRUE IN value[c] + sumOf(S \ {c}, value)

\* contentSchema.statics.getStats: $match, $group with _id null, $project.
\* A $group over no documents yields no document.
getStats(u) ==
  LET matched == { c \in DOMAIN contents : contents[c].userId = u }
      ofType(t) == Cardinality({ c \in matched : contents[c].type = t })
  IN  IF matched = {} THEN <<>>
      ELSE << [totalContent |-> Cardinality(matched),
               totalWords |-> sumOf(matched, [c \in matched |-> strLenCP(contents[c].content)]),
               documentCount |-> ofType("document"),
               videoCount |-> ofType("video"),
               articleCount |-> ofType("article"),
               noteCount |-> ofType("note")] >>

\* POST /api/content/upload, /url, /youtube: new Content({...}).save().
CreateContent(u, type, text) ==
  /\ Cardinality(DOMAIN contents) < Cardinality(ContentIds)
  /\ contents' = contents @@
       ((Cardinality(DOMAIN contents) + 1) :> [userId |-> u, type |-> type, content |-> text])
  /\ resp' = [op |-> "create", status |-> 201]
  /\ UNCHANGED <<now, flashcards, reqs, reviewsDone, probe, quizzes, submission, attemptsDone>>

\* The handler of GET /api/content/stats: stats[0] || {}.
ContentStats(u) ==
  /\ LET stats == getStats(u)
     IN  resp' = [op |-> "stats", status |-> 200, user |-> u,
                  stats |-> IF stats = <<>> THEN EmptyObject ELSE stats[1]]
  /\ UNCHANGED <<now, contents, flashcards, reqs, reviewsDone, probe, quizzes, submission, attemptsDone>>

\* An empty store.
InitStats ==
  /\ now = 0
  /\ contents = <<>>
  /\ flashcards = <<>>
  /\ reqs = [s \in Slots |-> Idle]
  /\ resp = NoResp
  /\ reviewsDone = <<>>
  /\ probe = NoProbe
  /\ quizzes = <<>>
  /\ submission = NoSubmission
  /\ attemptsDone = <<>>

NextStats ==
  \/ \E u \in Users, type \in CreatedTypes, text \in Texts : CreateContent(u, type, text)
  \/ \E u \in Users : ContentStats(u)

SpecStats == InitStats /\ [][NextStats]_vars

\* -------------------------------------- reviews and attempts together
\* The bodies of the attempt requests of this specification: at most one
\* answer, to the first question.
MutationBodies ==
  { b \in Bodies : Len(b.answers) <= 1 /\ \A i \in 1..Len(b.answers) : b.answers[i].questionId = 1 }

\* The store holds the content of each user, an easy and a hard flashcard
\* of the first content, and a quiz of the first content with one question.
InitMutation ==
  /\ now = 0
  /\ contents = (1 :> [userId |-> "u1"]) @@ (2 :> [userId |-> "u2"])
  /\ flashcards = (1 :> NewFlashcard(1, "easy")) @@ (2 :> NewFlashcard(1, "hard"))
  /\ reqs = [s \in Slots |-> Idle]
  /\ resp = NoResp
  /\ reviewsDone = (1 :> 0) @@ (2 :> 0)
  /\ probe = NoProbe
  /\ quizzes = (1 :> NewQuiz(1, <<[points |-> 1]>>, 70))
  /\ submission \in MutationBodies
  /\ attemptsDone = (1 :> 0)

\* The requests served one at a time.
NextMutation ==
  \/ Tick
  \/ \E u \in Users, f \in 1..(Cardinality(DOMAIN flashcards) + 1) : markFlashcardReviewed(u, f)
  \/ \E u \in Users, id \in {1, 2} : recordQuizAttempt(u, id)

SpecMutation == InitMutation /\ [][NextMutation]_vars

\* ------------------------------------------------- quiz reads and statistics
\* Math.round(a / b) for a >= 0 and b > 0: halves round up.
roundDiv(a, b) == (2 * a + b) \div (2 * b)

\* attempts.reduce((sum, attempt) => sum + attempt.score, 0) over the
\* first n attempts.
RECURSIVE reduceScore(_, _)
reduceScore(attempts, n) ==
  IF n = 0 THEN 0 ELSE reduceScore(attempts, n - 1) + attempts[n].score

\* Variant of averageScore that looks at the latest attempt only.
averageScore_LastOnly(quiz) ==
  IF Len(quiz.attempts) = 0 THEN NULL
  ELSE 100 * quiz.attempts[Len(quiz.attempts)].score

\* quizSchema.virtual('averageScore'), in hundredths of a point: null with
\* no attempts, else Math.round((totalScore / length) * 100) / 100.
averageScore(quiz) ==
  IF Len(quiz.attempts) = 0 THEN NULL
  ELSE LET totalScore == reduceScore(quiz.attempts, Len(quiz.attempts))
       IN  roundDiv(100 * totalScore, Len(quiz.attempts))

\* Variant of completionRate that counts the attempts above the passing
\* score only.
completionRate_Strict(quiz) ==
  IF Len(quiz.attempts) = 0 THEN 0
  ELSE LET completedAttempts ==
             { i \in 1..Len(quiz.attempts) : quiz.attempts[i].score > quiz.passingScore }
       IN  roundDiv(100 * Cardinality(completedAttempts), Len(quiz.attempts))

\* quizSchema.virtual('completionRate').
completionRate(quiz) ==
  IF Len(quiz.attempts) = 0 THEN 0
  ELSE LET completedAttempts ==
             { i \in 1..Len(quiz.attempts) : quiz.attempts[i].score >= quiz.passingScore }
       IN  roundDiv(100 * Cardinality(completedAttempts), Len(quiz.attempts))

\* toObject() with virtuals: the stored fields and the virtuals computed
\* from them at the time of the call.
quizToJSON(id) ==
  [id |-> id, contentId |-> quizzes[id].contentId,
   passingScore |-> quizzes[id].passingScore, attempts |-> quizzes[id].attempts,
   averageScore |-> averageScore(quizzes[id]),
   completionRate |-> completionRate(quizzes[id])]

\* The documents of S, newest first (ids grow with createdAt).
RECURSIVE newestFirst(_)
newestFirst(S) ==
  IF S = {} THEN <<>>
  ELSE LET id == CHOOSE i \in S : \A j \in S : j <= i
       IN  <<id>> \o newestFirst(S \ {id})

\* quizSchema.statics.findByContent: the quizzes of the content, newest
\* first, at most `n` of them.
findByContent(c, n) ==
  LET ids == newestFirst({ id \in DOMAIN quizzes : quizzes[id].contentId = c })
  IN  [i \in 1..Min(n, Len(ids)) |-> quizToJSON(ids[i])]

\* GET /api/ai/quiz/:contentId without a limit parameter (limit = 10).
getQuizzes(u, c) ==
  /\ IF ~ownsContent(u, c)
       THEN resp' = [op |-> "quizzes", status |-> 404]
       ELSE resp' = [op |-> "quizzes", status |-> 200, contentId |-> c,
                     quizzes |-> findByContent(c, 10)]
  /\ UNCHANGED <<now, contents, flashcards, reqs, reviewsDone, probe, quizzes,
                 submission, attemptsDone>>

\* The $avg accumulator over the field `field` of the stored documents S:
\* documents without the field are ignored, and the result is null when no
\* document has it. Virtuals are not stored, so they are not fields here.
\* The mean is kept in hundredths, as $round to 2 places leaves it.
avgField(S, field) ==
  LET having == { id \in S : field \in DOMAIN quizzes[id] }
  IN  IF having = {} THEN NULL
      ELSE roundDiv(100 * sumOf(having, [id \in having |-> quizzes[id][field]]),
                    Cardinality(having))

\* quizSchema.statics.getStats: $match, $group with _id null, $project.
quizGetStats(c) ==
  LET S == { id \in DOMAIN quizzes : quizzes[id].contentId = c }
  IN  IF S = {} THEN <<>>
      ELSE << [totalQuizzes |-> Cardinality(S),
               totalAttempts |-> sumOf(S, [id \in S |-> Len(quizzes[id].attempts)]),
               totalQuestions |-> sumOf(S, [id \in S |-> Len(quizzes[id].questions)]),
               avgScore |-> avgField(S, "averageScore")] >>

\* A call of Quiz.getStats(contentId).
QuizGetStats(c) ==
  /\ resp' = [op |-> "quizStats", contentId |-> c, stats |-> quizGetStats(c)]
  /\ UNCHANGED <<now, contents, flashcards, reqs, reviewsDone, probe, quizzes,
                 submission, attemptsDone>>

\* GET /api/user/learning-stats, the quizStats part: $lookup of the
\* content, $match on its owner, $group with _id null; `quizStats[0] || {}`.
LearningStats(u) ==
  LET S == { id \in DOMAIN quizzes : ownsContent(u, quizzes[id].contentId) }
      quizStats ==
        IF S = {} THEN EmptyObject
        ELSE [totalQuizzes |-> Cardinality(S),
              totalAttempts |-> sumOf(S, [id \in S |-> Len(quizzes[id].attempts)]),
              avgScore |-> avgField(S, "averageScore")]
  IN  /\ resp' = [op |-> "learningStats", status |-> 200, user |-> u,
                  quizStats |-> quizStats]
      /\ UNCHANGED <<now, contents, flashcards, reqs, reviewsDone, probe, quizzes,
                     submission, attemptsDone>>

\* The answer sheets of this specification: one answer, to either question.
ReadBodies ==
  { b \in Bodies : /\ b.shape = "list" /\ b.timeSpent >= 0
                   /\ Len(b.answers) = 1 }

\* The client fills in another answer sheet.
Submit(body) ==
  /\ submission' = body
  /\ UNCHANGED <<now, contents, flashcards, reqs, resp, reviewsDone, probe, quizzes,
                 attemptsDone>>

\* The store holds the content of each user and a quiz of the first content
\* with a question of weight 1 and a question of weight 3, passed with 75.
InitQuizRead ==
  /\ now = 0
  /\ contents = (1 :> [userId |-> "u1"]) @@ (2 :> [userId |-> "u2"])
  /\ flashcards = <<>>
  /\ reqs = [s \in Slots |-> Idle]
  /\ resp = NoResp
  /\ reviewsDone = <<>>
  /\ probe = NoProbe
  /\ quizzes = (1 :> NewQuiz(1, <<[points |-> 1], [points |-> 3]>>, 75))
  /\ submission \in ReadBodies
  /\ attemptsDone = (1 :> 0)

\* Attempts, reads and statistics served one at a time.
NextQuizRead ==
  \/ \E body \in ReadBodies : Submit(body)
  \/ \E u \in Users : recordQuizAttempt(u, 1)
  \/ \E u \in Users, c \in ContentIds : getQuizzes(u, c)
  \/ \E c \in ContentIds : QuizGetStats(c)
  \/ \E u \in Users : LearningStats(u)

SpecQuizRead == InitQuizRead /\ [][NextQuizRead]_vars

\* ------------------------------------------------------ deletion of content
\* The store holds the content of each user, an easy and a hard flashcard
\* of the first content and a quiz of the first content; the client submits
\* a correct answer to its question.
InitDelete ==
  /\ now = 0
  /\ contents = (1 :> [userId |-> "u1"]) @@ (2 :> [userId |-> "u2"])
  /\ flashcards = (1 :> NewFlashcard(1, "easy")) @@ (2 :> NewFlashcard(1, "hard"))
  /\ reqs = [s \in Slots |-> Idle]
  /\ resp = NoResp
  /\ reviewsDone = (1 :> 0) @@ (2 :> 0)
  /\ probe = NoProbe
  /\ quizzes = (1 :> NewQuiz(1, <<[points |-> 1]>>, 70))
  /\ submission = [answers |-> <<[questionId |-> 1, isCorrect |-> TRUE]>>,
                   timeSpent |-> 5, shape |-> "list"]
  /\ attemptsDone = (1 :> 0)

\* Deletions, reviews and attempts served one at a time.
NextDelete ==
  \/ \E u \in Users, c \in ContentIds : DeleteContent(u, c)
  \/ \E u \in Users, f \in DOMAIN flashcards : markFlashcardReviewed(u, f)
  \/ \E u \in Users, id \in DOMAIN quizzes : recordQuizAttempt(u, id)

SpecDelete == InitDelete /\ [][NextDelete]_vars

\* ------------------------------------------------------------ the dashboard
\* GET /api/user/dashboard, the learningProgress part: $lookup of the
\* content, $match on its owner, $group with _id null; a card counts as
\* mastered when reviewCount * 10 >= 100. Zero counters when no card matches.
Dashboard(u) ==
  LET S == { f \in DOMAIN flashcards : ownsContent(u, flashcards[f].contentId) }
      learningProgress ==
        IF S = {} THEN [totalFlashcards |-> 0, totalReviews |-> 0, masteredCards |-> 0]
        ELSE [totalFlashcards |-> Cardinality(S),
              totalReviews |-> sumOf(S, [f \in S |-> flashcards[f].reviewCount]),
              masteredCards |->
                sumOf(S, [f \in S |-> IF flashcards[f].reviewCount * 10 >= 100 THEN 1 ELSE 0])]
  IN  /\ resp' = [op |-> "dashboard", status |-> 200, user |-> u,
                  learningProgress |-> learningProgress]
      /\ UNCHANGED <<now, contents, flashcards, reqs, reviewsDone, probe, quizzes,
                     submission, attemptsDone>>

\* A flashcard of content c that was reviewed n times, the last time at 0.
ReviewedFlashcard(c, d, n) ==
  [NewFlashcard(c, d) EXCEPT !.reviewCount = n,
                             !.lastReviewed = IF n = 0 THEN NULL ELSE 0]

\* The store holds the content of each user and two flashcards, the first
\* of the first content, each of any difficulty and reviewed any number of
\* times.
InitDashboard ==
  /\ now = 0
  /\ contents = (1 :> [userId |-> "u1"]) @@ (2 :> [userId |-> "u2"])
  /\ \E c \in ContentIds, d1, d2 \in Difficulties, n1, n2 \in 0..MaxCount :
       /\ flashcards = (1 :> ReviewedFlashcard(1, d1, n1)) @@ (2 :> ReviewedFlashcard(c, d2, n2))
       /\ reviewsDone = (1 :> n1) @@ (2 :> n2)
  /\ reqs = [s \in Slots |-> Idle]
  /\ resp = NoResp
  /\ probe = NoProbe
  /\ quizzes = <<>>
  /\ submission = NoSubmission
  /\ attemptsDone = <<>>

NextDashboard == \E u \in Users : Dashboard(u)

SpecDashboard == InitDashboard /\ [][NextDashboard]_vars

\* ------------------------------------------------ the content router's GETs
\* The GET routes of the content router in the order of their registration.
ContentGetRoutes == << "/", "/:id", "/stats" >>

\* The path segments after /api/content that the requests of this
\* specification carry, and the ObjectIds among them: "stats" is not one.
Segments == {"stats", "1", "2"}
ObjectIdOf == ("1" :> 1) @@ ("2" :> 2)

\* Whether a route's pattern matches the request path /<segment>: a
\* parameter matches any segment, a literal matches itself.
matchRoute(route, segment) ==
  IF route = "/" THEN FALSE
  ELSE IF route = "/:id" THEN TRUE
  ELSE route = "/" \o segment

\* The router hands a request to the first registered route that matches,
\* 0 when none does.
dispatch(segment) ==
  LET hits == { i \in 1..Len(ContentGetRoutes) : matchRoute(ContentGetRoutes[i], segment) }
  IN  IF hits = {} THEN 0 ELSE CHOOSE i \in hits : \A j \in hits : i <= j

\* The handler of GET /api/content/:id: Content.findOne({_id, userId}); a
\* parameter that is no ObjectId makes the query throw a CastError, which
\* the error handler answers with 404 'Resource not found'.
getContentById(u, id) ==
  /\ IF id \notin DOMAIN ObjectIdOf
       THEN resp' = [op |-> "content", status |-> 404, message |-> "Resource not found"]
       ELSE IF ownsContent(u, ObjectIdOf[id])
       THEN resp' = [op |-> "content", status |-> 200, user |-> u,
                     content |-> contents[ObjectIdOf[id]]]
       ELSE resp' = [op |-> "content", status |-> 404, message |-> "Content not found"]
  /\ UNCHANGED <<now, contents, flashcards, reqs, reviewsDone, probe, quizzes,
                 submission, attemptsDone>>

\* An authenticated GET /api/content/<segment>.
ContentGet(u, segment) ==
  LET route == dispatch(segment)
  IN  IF route # 0 /\ ContentGetRoutes[route] = "/:id" THEN getContentById(u, segment)
      ELSE IF route # 0 /\ ContentGetRoutes[route] = "/stats" THEN ContentStats(u)
      ELSE /\ resp' = [op |-> "notFound", status |-> 404]
           /\ UNCHANGED <<now, contents, flashcards, reqs, reviewsDone, probe, quizzes,
                          submission, attemptsDone>>

NextRouter ==
  \/ \E u \in Users, type \in CreatedTypes, text \in Texts : CreateContent(u, type, text)
  \/ \E u \in Users, segment \in Segments : ContentGet(u, segment)

SpecRouter == InitStats /\ [][NextRouter]_vars

\* ============================================================== claims
Range(s) == { s[i] : i \in 1..Len(s) }
ReviewOk == resp.op = "review" /\ resp.status = 200
DueOk == resp.op = "due" /\ resp.status = 200

\* C1: a successful markFlashcardReviewed leaves the stored reviewCount
\* exactly 1 above the count the request read, and the stored lastReviewed
\* is a timestamp not earlier than the time of the call.
C1_ReviewIncrementsByOne ==
  ReviewOk =>
    /\ flashcards[resp.id].reviewCount = resp.readCount + 1
    /\ resp.reviewCount = resp.readCount + 1
    /\ flashcards[resp.id].lastReviewed # NULL
    /\ flashcards[resp.id].lastReviewed >= resp.callTime
    /\ resp.lastReviewed = flashcards[resp.id].lastReviewed

C1_Witness ==
  /\ ReviewOk
  /\ resp.readCount = 1
  /\ flashcards[resp.id].reviewCount = 2
  /\ flashcards[resp.id].lastReviewed > resp.callTime

\* C2: the read-modify-write of markReviewed is atomic: the stored
\* reviewCount of a flashcard equals its initial value 0 plus the number of
\* review requests on it that have completed successfully.
C2_NoLostIncrement ==
  \A f \in DOMAIN flashcards : flashcards[f].reviewCount = reviewsDone[f]

\* C3 (as claimed): every flashcard of the requested content whose
\* lastReviewed is null is in the output of getForReview for every limit > 0.
C3_NullAlwaysListed ==
  (DueOk /\ resp.limit > 0) =>
    \A f \in DOMAIN flashcards :
      (flashcards[f].contentId = resp.contentId /\ flashcards[f].lastReviewed = NULL)
        => f \in Range(resp.flashcards)

NeverReviewed(c) ==
  { f \in DOMAIN flashcards :
      flashcards[f].contentId = c /\ flashcards[f].lastReviewed = NULL }

\* C3 (amended): every flashcard of the requested content whose lastReviewed
\* is null is in the output of getForReview for every limit > 0 that is at
\* least the number of such flashcards, whatever other flashcards are due;
\* under a smaller limit the output consists of never-reviewed flashcards.
C3_NullListedWithinLimit ==
  (DueOk /\ resp.limit > 0) =>
    /\ Cardinality(NeverReviewed(resp.contentId)) <= resp.limit
         => NeverReviewed(resp.contentId) \subseteq Range(resp.flashcards)
    /\ Cardinality(NeverReviewed(resp.contentId)) > resp.limit
         => Range(resp.flashcards) \subseteq NeverReviewed(resp.contentId)

C3_Witness ==
  /\ DueOk
  /\ resp.limit = 1
  /\ Len(resp.flashcards) = 1
  /\ resp.flashcards[1] \in NeverReviewed(resp.contentId)
  /\ \E f \in DOMAIN flashcards :
       /\ flashcards[f].contentId = resp.contentId
       /\ flashcards[f].lastReviewed # NULL
       /\ flashcards[f].lastReviewed < now - DAY

\* The due rule of the claims: null, or strictly older than 24 hours.
IsDue(f, c) ==
  /\ flashcards[f].contentId = c
  /\ \/ flashcards[f].lastReviewed = NULL
     \/ now - flashcards[f].lastReviewed > DAY

DueCards(c) == { f \in DOMAIN flashcards : IsDue(f, c) }

\* C4: getForReview returns only flashcards of the requested content that
\* are due (lastReviewed null or strictly older than 24 hours before the
\* query); a flashcard reviewed exactly 24 hours ago or later is never
\* returned, and a due flashcard is left out only by the limit.
C4_OnlyDueReturned ==
  DueOk =>
    /\ Range(resp.flashcards) \subseteq DueCards(resp.contentId)
    /\ \A f \in Range(resp.flashcards) :
         ~(flashcards[f].lastReviewed # NULL /\ flashcards[f].lastReviewed + DAY >= now)
    /\ (resp.limit = 0 \/ Len(resp.flashcards) < resp.limit)
         => Range(resp.flashcards) = DueCards(resp.contentId)

C4_Witness ==
  /\ DueOk
  /\ \E f \in Range(resp.flashcards) : flashcards[f].lastReviewed # NULL
  /\ \E f \in DOMAIN flashcards :
       /\ flashcards[f].contentId = resp.contentId
       /\ flashcards[f].lastReviewed # NULL
       /\ flashcards[f].lastReviewed + DAY = now
       /\ f \notin Range(resp.flashcards)

\* lastReviewed ascending with null first, then reviewCount ascending.
KeyLeq(f, g) ==
  LET a == flashcards[f]
      b == flashcards[g]
      ka == IF a.lastReviewed = NULL THEN 0 ELSE a.lastReviewed + 1
      kb == IF b.lastReviewed = NULL THEN 0 ELSE b.lastReviewed + 1
  IN  ka < kb \/ (ka = kb /\ a.reviewCount <= b.reviewCount)

Ordered(out) == \A i, j \in 1..Len(out) : i < j => KeyLeq(out[i], out[j])
Distinct(out) == \A i, j \in 1..Len(out) : i # j => out[i] # out[j]
FirstOfDue(out, c) ==
  \A f \in DueCards(c) \ Range(out) : \A i \in 1..Len(out) : KeyLeq(out[i], f)

\* C5 (as claimed): the output of getForReview is ordered by lastReviewed
\* ascending with null first, ties broken by reviewCount ascending, its
\* length is at most the caller-supplied limit (20 when none is given), and
\* it consists of the first `limit` due cards in that order.
C5_OrderedAndCapped ==
  DueOk =>
    LET lim == IF resp.query = NoLimit THEN 20 ELSE resp.query
    IN  /\ Ordered(resp.flashcards)
        /\ Len(resp.flashcards) <= lim
        /\ Len(resp.flashcards) = Min(lim, Cardinality(DueCards(resp.contentId)))
        /\ FirstOfDue(resp.flashcards, resp.contentId)

\* C5 (amended): as claimed for every caller-supplied limit > 0 and for the
\* default of 20; a caller-supplied limit of 0 is no limit, and the output
\* then holds every due card of the content, in the same order.
C5_OrderedAndCappedPositive ==
  DueOk =>
    LET lim == IF resp.query = NoLimit THEN 20 ELSE resp.query
        due == Cardinality(DueCards(resp.contentId))
    IN  /\ Ordered(resp.flashcards)
        /\ Distinct(resp.flashcards)
        /\ Range(resp.flashcards) \subseteq DueCards(resp.contentId)
        /\ resp.limit = lim
        /\ lim > 0 => Len(resp.flashcards) = Min(lim, due)
        /\ lim = 0 => Len(resp.flashcards) = due
        /\ FirstOfDue(resp.flashcards, resp.contentId)

C5_Witness ==
  /\ DueOk
  /\ resp.limit = 1
  /\ Len(resp.flashcards) = 1
  /\ \E f \in DueCards(resp.contentId) \ Range(resp.flashcards) :
       /\ flashcards[f].lastReviewed = flashcards[resp.flashcards[1]].lastReviewed
       /\ flashcards[f].lastReviewed # NULL
       /\ flashcards[f].reviewCount > flashcards[resp.flashcards[1]].reviewCount

\* C6: every flashcard starts with reviewCount 0 (and lastReviewed null),
\* no step lowers a stored reviewCount, and only the save of a review
\* request changes a stored reviewCount or lastReviewed.
C6_ReviewCountMonotonic ==
  [][ /\ \A f \in DOMAIN flashcards' \ DOMAIN flashcards :
           flashcards'[f].reviewCount = 0 /\ flashcards'[f].lastReviewed = NULL
      /\ \A f \in DOMAIN flashcards :
           /\ f \in DOMAIN flashcards'
           /\ flashcards'[f].reviewCount >= flashcards[f].reviewCount
           /\ (flashcards'[f].reviewCount # flashcards[f].reviewCount
                 \/ flashcards'[f].lastReviewed # flashcards[f].lastReviewed)
               => (resp'.op = "review" /\ resp'.status = 200 /\ resp'.id = f) ]_vars

\* The bands of the claims: score = reviewCount * 10 * m with m = 1, 1.5, 2,
\* here in tenths (m = 10, 15, 20 against 1000, 500, 200).
ClaimedLevel(reviewCount, difficulty) ==
  LET m10 == IF difficulty = "easy" THEN 10 ELSE IF difficulty = "medium" THEN 15 ELSE 20
      score10 == reviewCount * 10 * m10
  IN  IF score10 >= 1000 THEN "mastered"
      ELSE IF score10 >= 500 THEN "proficient"
      ELSE IF score10 >= 200 THEN "learning"
      ELSE "new"

\* C7: for every reviewCount >= 0 and difficulty, masteryLevel is the band
\* of reviewCount * 10 * m: mastered from 100, proficient from 50, learning
\* from 20, else new; hard with 5 reviews is mastered, easy with 5 reviews
\* is proficient.
C7_MasteryBands ==
  probe # NoProbe =>
    /\ probe.doc.reviewCount >= 0
    /\ probe.level = ClaimedLevel(probe.doc.reviewCount, probe.doc.difficulty)
    /\ (probe.doc.difficulty = "hard" /\ probe.doc.reviewCount = 5) => probe.level = "mastered"
    /\ (probe.doc.difficulty = "easy" /\ probe.doc.reviewCount = 5) => probe.level = "proficient"

C7_Witness ==
  /\ probe # NoProbe
  /\ probe.doc.difficulty = "medium"
  /\ probe.first = 6 /\ probe.firstLevel = "proficient"
  /\ probe.doc.reviewCount = 7 /\ probe.level = "mastered"

BandOrd(level) ==
  CASE level = "new" -> 0
    [] level = "learning" -> 1
    [] level = "proficient" -> 2
    [] level = "mastered" -> 3

\* The function alone: the band at a later count of the same document is
\* never below the band at an earlier count.
BandMonotonicInCount ==
  probe # NoProbe => BandOrd(probe.firstLevel) <= BandOrd(probe.level)

\* C8: the mastery band is monotonic in reviewCount for a fixed difficulty,
\* so that no step of the system lowers the mastery band of a stored
\* flashcard.
C8_BandNeverLowered ==
  [][ \A f \in DOMAIN flashcards :
        f \in DOMAIN flashcards' =>
          BandOrd(masteryLevel(flashcards'[f].reviewCount, flashcards'[f].difficulty))
            >= BandOrd(masteryLevel(flashcards[f].reviewCount, flashcards[f].difficulty)) ]_vars

AttemptOk == resp.op = "attempt" /\ resp.status = 200
Scored == quizzes[resp.id]
RECURSIVE SumOver(_, _)
SumOver(S, weight) ==
  IF S = {} THEN 0
  ELSE LET x == CHOOSE y \in S : TRUE IN weight[x] + SumOver(S \ {x}, weight)
Weights(quiz) == [n \in 1..Len(quiz.questions) |-> quiz.questions[n].points]
TotalWeight(quiz) == SumOver(1..Len(quiz.questions), Weights(quiz))
\* s = round(earned / total * 100), halves up: s <= x + 1/2 < s + 1.
IsRoundedPercent(s, earned, total) ==
  /\ 2 * s * total <= 200 * earned + total
  /\ 200 * earned + total < 2 * (s + 1) * total

\* Questions with some submitted answer of their identifier flagged correct.
AnsweredCorrect(quiz, answers) ==
  { n \in 1..Len(quiz.questions) :
      \E i \in 1..Len(answers) : answers[i].questionId = n /\ answers[i].isCorrect }

\* Questions whose first submitted answer of their identifier is flagged correct.
FirstAnswerCorrect(quiz, answers) ==
  { n \in 1..Len(quiz.questions) :
      \E i \in 1..Len(answers) :
        /\ answers[i].questionId = n /\ answers[i].isCorrect
        /\ \A j \in 1..(i - 1) : answers[j].questionId # n }

\* C9 (as claimed): with total weight > 0 the score is
\* round(earned / total * 100), earned being the weight of the questions for
\* which a submitted answer with their identifier exists and is flagged
\* correct; weights 1 and 3 with only the 3-point question correct give 75.
C9_ScoreIsRoundedShare ==
  (AttemptOk /\ TotalWeight(Scored) > 0) =>
    IsRoundedPercent(resp.score,
                     SumOver(AnsweredCorrect(Scored, submission.answers), Weights(Scored)),
                     TotalWeight(Scored))

\* C9 (amended): as claimed, earned being the weight of the questions whose
\* first submitted answer with their identifier is flagged correct.
C9_ScoreIsRoundedShareOfFirst ==
  (AttemptOk /\ TotalWeight(Scored) > 0) =>
    /\ IsRoundedPercent(resp.score,
                        SumOver(FirstAnswerCorrect(Scored, submission.answers), Weights(Scored)),
                        TotalWeight(Scored))
    /\ Scored.attempts[resp.totalAttempts].score = resp.score
    /\ (Weights(Scored) = <<1, 3>> /\ FirstAnswerCorrect(Scored, submission.answers) = {2})
         => resp.score = 75

C9_Witness ==
  /\ AttemptOk
  /\ Weights(Scored) = <<1, 7>>
  /\ submission.answers = <<[questionId |-> 1, isCorrect |-> TRUE],
                            [questionId |-> 1, isCorrect |-> FALSE]>>
  /\ resp.score = 13

\* The request reached the scoring of the stored quiz with answer records
\* that carry every required field.
ScoredWellFormed ==
  /\ resp.op = "attempt" /\ resp.status \notin {403, 404}
  /\ validAttemptBody(submission) /\ submission.shape = "list"

\* C10 (as claimed): with non-zero total points and every question having a
\* submitted answer flagged correct the attempt scores 100; on a quiz of
\* zero total points the attempt scores 0 and completes without an error.
C10_AllCorrectAndZeroTotal ==
  /\ (AttemptOk /\ TotalWeight(Scored) > 0
        /\ AnsweredCorrect(Scored, submission.answers) = 1..Len(Scored.questions))
       => resp.score = 100
  /\ (ScoredWellFormed /\ TotalWeight(quizzes[1]) = 0)
       => (resp.status = 200 /\ resp.score = 0)

\* C10 (amended): with non-zero total points and the first submitted answer
\* of every question flagged correct the attempt scores 100; on a quiz of
\* zero total points the attempt scores 0 and completes without an error.
C10_FirstAllCorrectAndZeroTotal ==
  /\ (AttemptOk /\ TotalWeight(Scored) > 0
        /\ FirstAnswerCorrect(Scored, submission.answers) = 1..Len(Scored.questions))
       => (resp.score = 100 /\ Scored.attempts[resp.totalAttempts].score = 100)
  /\ (ScoredWellFormed /\ TotalWeight(quizzes[1]) = 0)
       => /\ resp.status = 200 /\ resp.score = 0
          /\ quizzes[1].attempts[resp.totalAttempts].score = 0

C10_Witness ==
  /\ AttemptOk
  /\ TotalWeight(Scored) = 0
  /\ Len(submission.answers) = 2
  /\ resp.score = 0
  /\ resp.totalAttempts = 2

\* C11: the attempt list of every quiz is append-only: a step changes it
\* only by adding one attempt at the end, every earlier attempt and its
\* score stay as they were, only a successful recordQuizAttempt changes it,
\* and each successful recordQuizAttempt adds exactly one attempt, which
\* holds the score it reports.
C11_AttemptsAppendOnly ==
  [][ /\ \A id \in DOMAIN quizzes :
           /\ id \in DOMAIN quizzes'
           /\ quizzes'[id].questions = quizzes[id].questions
           /\ LET old == quizzes[id].attempts
                  new == quizzes'[id].attempts
              IN  /\ Len(old) <= Len(new) /\ Len(new) <= Len(old) + 1
                  /\ \A i \in 1..Len(old) : new[i] = old[i]
                  /\ new # old =>
                       (resp'.op = "attempt" /\ resp'.status = 200 /\ resp'.id = id)
      /\ \A s \in Slots :
           (AttemptSave(s) /\ resp'.status = 200) =>
             LET new == quizzes'[resp'.id].attempts
             IN  /\ Len(new) = Len(quizzes[resp'.id].attempts) + 1
                 /\ new[Len(new)].score = resp'.score ]_vars

C11_Witness ==
  /\ AttemptOk
  /\ Len(Scored.attempts) = 2
  /\ Scored.attempts[1].score = 25 /\ Scored.attempts[1].completedAt = 0
  /\ Scored.attempts[2].score = 0 /\ Scored.attempts[2].completedAt = 1
  /\ resp.score = 0

\* C12: interleaved recordQuizAttempt requests on one quiz lose no append:
\* the stored list holds one attempt per request that completed
\* successfully, and right after a request completes its attempt is the
\* last of the stored list.
C12_NoLostAttempt ==
  /\ \A id \in DOMAIN quizzes : Len(quizzes[id].attempts) = attemptsDone[id]
  /\ AttemptOk =>
       LET stored == Scored.attempts
       IN  /\ Len(stored) >= resp.totalAttempts
           /\ stored[Len(stored)].score = resp.score

\* Two requests that both loaded the empty list have both completed.
C12_Witness ==
  /\ AttemptOk
  /\ resp.totalAttempts = 1
  /\ attemptsDone[resp.id] = 2
  /\ Len(Scored.attempts) = 2
  /\ Scored.attempts[1].score # Scored.attempts[2].score
  /\ \A s \in Slots : reqs[s] = Idle

StatsOk == resp.op = "stats" /\ resp.status = 200
OwnedBy(u) == { c \in DOMAIN contents : contents[c].userId = u }

\* C14: getContentStatistics for a user who owns no content returns a
\* structure that holds every counter, each equal to 0.
C14_ZeroContentAllZero ==
  (StatsOk /\ OwnedBy(resp.user) = {}) =>
    /\ DOMAIN resp.stats = Counters
    /\ \A k \in Counters : resp.stats[k] = 0

\* C20: the totalWords of getContentStatistics is the sum, over the
\* user's content items, of the number of whitespace-separated non-empty
\* tokens of the stored text (the content's wordCount).
C20_TotalWordsIsTokenCount ==
  (StatsOk /\ OwnedBy(resp.user) # {}) =>
    resp.stats.totalWords =
      sumOf(OwnedBy(resp.user), [c \in OwnedBy(resp.user) |-> wordCount(contents[c].content)])

\* C15: markFlashcardReviewed has one failure outcome: when the flashcard
\* is absent or its content is not owned by the caller the call is reported
\* as not found (404) and the flashcard is unchanged; every other call
\* succeeds.
C15_OnlyNotFound ==
  [][ \A u \in Users, f \in 1..MaxCards :
        markFlashcardReviewed(u, f) =>
          LET absent == f \notin DOMAIN flashcards
              notOwned == ~absent /\ ~(\E c \in DOMAIN contents :
                                         c = flashcards[f].contentId /\ contents[c].userId = u)
          IN  /\ (absent \/ notOwned) => (resp'.status = 404 /\ flashcards' = flashcards)
              /\ ~(absent \/ notOwned) => resp'.status = 200 ]_vars

\* C16: recordQuizAttempt fails when the quiz does not exist (404) or the
\* caller does not own the quiz's content (403), a request that does not
\* pass validation failing before either (400); in both cases no attempt is
\* appended and the stored quizzes are unchanged.
C16_MissingOrForeignQuizFails ==
  [][ \A u \in Users, id \in {1, 2} :
        recordQuizAttempt(u, id) =>
          LET absent == id \notin DOMAIN quizzes
              notOwned == ~absent /\ ~(\E c \in DOMAIN contents :
                                         c = quizzes[id].contentId /\ contents[c].userId = u)
          IN  (absent \/ notOwned) =>
                /\ resp'.status \in {400, 403, 404}
                /\ validAttemptBody(submission) =>
                     resp'.status = (IF absent THEN 404 ELSE 403)
                /\ quizzes' = quizzes ]_vars

\* A caller who does not own the content was refused on a quiz that holds
\* an attempt of its owner.
C16_Witness ==
  /\ resp.op = "attempt" /\ resp.status = 403
  /\ validAttemptBody(submission) /\ submission.shape = "list"
  /\ Len(quizzes[1].attempts) = 1
  /\ quizzes[1].attempts[1].userId = "u1"

\* C17: a recordQuizAttempt request whose timeSpent is negative or whose
\* answers is not a list is rejected as a validation failure (400) whatever
\* the quiz and the caller, and appends no attempt; every stored attempt has
\* timeSpent >= 0.
C17_InvalidBodyRejected ==
  [][ /\ \A u \in Users, id \in {1, 2} :
           (recordQuizAttempt(u, id)
              /\ (submission.timeSpent < 0 \/ submission.shape = "notArray")) =>
             (resp'.status = 400 /\ quizzes' = quizzes)
      /\ \A id \in DOMAIN quizzes' :
           \A i \in 1..Len(quizzes'[id].attempts) :
             quizzes'[id].attempts[i].timeSpent >= 0 ]_vars

\* A well-formed answer list sent with a negative timeSpent was rejected.
C17_Witness ==
  /\ resp.op = "attempt" /\ resp.status = 400
  /\ submission.timeSpent < 0
  /\ submission.shape = "list" /\ Len(submission.answers) = 2
  /\ quizzes[1].attempts = <<>>

AttemptFields == {"userId", "score", "answers", "completedAt", "timeSpent"}

\* C18: markReviewed and addAttempt have no partial failure: a request that
\* fails (400, 403, 404, or 500 for a save refused by validation) leaves
\* every stored flashcard and quiz as before; a successful review persists
\* both the new reviewCount and the new lastReviewed; a successful attempt
\* persists one complete attempt.
C18_NoPartialMutation ==
  [][ /\ (resp'.op \in {"attempt", "review"} /\ resp'.status # 200) =>
           (quizzes' = quizzes /\ flashcards' = flashcards)
      /\ (resp'.op = "review" /\ resp'.status = 200) =>
           /\ flashcards'[resp'.id].reviewCount = flashcards[resp'.id].reviewCount + 1
           /\ flashcards'[resp'.id].lastReviewed = now
      /\ (resp'.op = "attempt" /\ resp'.status = 200) =>
           LET old == quizzes[resp'.id].attempts
               new == quizzes'[resp'.id].attempts
           IN  /\ Len(new) = Len(old) + 1
               /\ \A i \in 1..Len(old) : new[i] = old[i]
               /\ DOMAIN new[Len(new)] = AttemptFields
               /\ new[Len(new)].answers = submission.answers
               /\ new[Len(new)].timeSpent = submission.timeSpent
               /\ new[Len(new)].score = resp'.score
               /\ new[Len(new)].completedAt = now
      /\ quizzes' # quizzes => (resp'.op = "attempt" /\ resp'.status = 200)
      /\ flashcards' # flashcards => (resp'.op = "review" /\ resp'.status = 200) ]_vars

\* A save refused for an answer without its required fields, after a
\* review that was persisted.
C18_Witness ==
  /\ resp.op = "attempt" /\ resp.status = 500
  /\ submission.shape = "malformed" /\ submission.timeSpent >= 0
  /\ quizzes[1].attempts = <<>>
  /\ flashcards[1].reviewCount = 2 /\ flashcards[1].lastReviewed = 1
  /\ now = 2

\* C19: a markReviewed call changes the targeted flashcard alone, and on it
\* only reviewCount and lastReviewed: every other flashcard, every quiz and
\* every content record, and the contentId and difficulty of the targeted
\* flashcard, are as before.
C19_ReviewFrame ==
  [][ \A u \in Users, f \in 1..(Cardinality(DOMAIN flashcards) + 1) :
        markFlashcardReviewed(u, f) =>
          /\ DOMAIN flashcards' = DOMAIN flashcards
          /\ \A g \in DOMAIN flashcards :
               /\ g # f => flashcards'[g] = flashcards[g]
               /\ flashcards'[g].contentId = flashcards[g].contentId
               /\ flashcards'[g].difficulty = flashcards[g].difficulty
               /\ DOMAIN flashcards'[g] = DOMAIN flashcards[g]
          /\ quizzes' = quizzes
          /\ contents' = contents ]_vars

\* The hard flashcard was reviewed beside a reviewed easy flashcard and a
\* quiz that holds an attempt.
C19_Witness ==
  /\ ReviewOk /\ resp.id = 2
  /\ flashcards[2].difficulty = "hard" /\ flashcards[2].reviewCount = 1
  /\ flashcards[2].lastReviewed = 1
  /\ flashcards[1].difficulty = "easy" /\ flashcards[1].reviewCount = 1
  /\ flashcards[1].lastReviewed = 0
  /\ Len(quizzes[1].attempts) = 1

QuizzesOk == resp.op = "quizzes" /\ resp.status = 200
Scores(attempts) == [i \in 1..Len(attempts) |-> attempts[i].score]
ScoreSum(attempts) == SumOver(1..Len(attempts), Scores(attempts))
\* The mean of the averageScore values (in hundredths) of those quizzes of S
\* that have an attempt, rounded to 2 decimals; null when none has one.
MeanAverageScore(S) ==
  LET scored == { id \in S : Len(quizzes[id].attempts) > 0 }
      avgOf == [id \in scored |->
                  (200 * ScoreSum(quizzes[id].attempts) + Len(quizzes[id].attempts))
                    \div (2 * Len(quizzes[id].attempts))]
  IN  IF scored = {} THEN NULL
      ELSE (2 * SumOver(scored, avgOf) + Cardinality(scored)) \div (2 * Cardinality(scored))

\* C21: the avgScore of the quiz statistics of a content, and of the
\* learning statistics of a user, is the mean of the averageScore values of
\* the quizzes concerned, hence a number whenever one of them has an attempt.
C21_AvgScoreIsMean ==
  /\ (resp.op = "quizStats" /\ resp.stats # <<>>) =>
       resp.stats[1].avgScore =
         MeanAverageScore({ id \in DOMAIN quizzes : quizzes[id].contentId = resp.contentId })
  /\ (resp.op = "learningStats" /\ resp.quizStats # EmptyObject) =>
       resp.quizStats.avgScore =
         MeanAverageScore({ id \in DOMAIN quizzes :
                              /\ quizzes[id].contentId \in DOMAIN contents
                              /\ contents[quizzes[id].contentId].userId = resp.user })

Orphaned(c) == c \notin DOMAIN contents

\* C22: a successful DELETE of a content leaves every flashcard and every
\* quiz stored unchanged, those of the deleted content included, so
\* flashcards and quizzes that refer to no existing content can be stored.
C22_DeleteKeepsChildren ==
  [][ /\ \A u \in Users, c \in ContentIds :
           (DeleteContent(u, c) /\ resp'.status = 200) =>
             /\ c \in DOMAIN contents /\ c \notin DOMAIN contents'
             /\ \A f \in DOMAIN flashcards :
                  f \in DOMAIN flashcards' /\ flashcards'[f] = flashcards[f]
             /\ \A q \in DOMAIN quizzes :
                  q \in DOMAIN quizzes' /\ quizzes'[q] = quizzes[q]
      /\ DOMAIN flashcards \subseteq DOMAIN flashcards'
      /\ DOMAIN quizzes \subseteq DOMAIN quizzes' ]_vars

\* The first content was deleted after a review and an attempt: its
\* flashcards and its quiz are stored as they were.
C22_Witness ==
  /\ resp = [op |-> "delete", status |-> 200]
  /\ Orphaned(1)
  /\ flashcards[1].contentId = 1 /\ flashcards[1].reviewCount = 1
  /\ flashcards[2].contentId = 1
  /\ quizzes[1].contentId = 1 /\ Len(quizzes[1].attempts) = 1

\* C25: the attempt appended by a successful attempt request records what
\* was submitted: the caller as userId, the submitted answer records as
\* answers, the supplied timeSpent, the score computed for this submission
\* against the quiz's questions, and the time of the call as completedAt.
C25_AttemptRecordsSubmission ==
  [][ \A u \in Users, id \in DOMAIN quizzes :
        (recordQuizAttempt(u, id) /\ resp'.status = 200) =>
          LET n == Len(quizzes'[id].attempts)
              attempt == quizzes'[id].attempts[n]
          IN  /\ n = Len(quizzes[id].attempts) + 1
              /\ attempt.userId = u
              /\ attempt.answers = submission.answers
              /\ attempt.timeSpent = submission.timeSpent
              /\ IsRoundedPercent(attempt.score,
                                  SumOver(FirstAnswerCorrect(quizzes[id], submission.answers),
                                          Weights(quizzes[id])),
                                  TotalWeight(quizzes[id]))
              /\ attempt.score = resp'.score
              /\ attempt.completedAt = now ]_vars

\* A second attempt recorded at time 2 with a correct answer.
C25_Witness ==
  /\ AttemptOk
  /\ now = 2
  /\ Len(Scored.attempts) = 2
  /\ Scored.attempts[2] = [userId |-> "u1", score |-> 100,
                           answers |-> <<[questionId |-> 1, isCorrect |-> TRUE]>>,
                           completedAt |-> 2, timeSpent |-> 5]

\* C26: the masteredCards count of the dashboard equals the number of the
\* user's flashcards whose masteryLevel is 'mastered'.
C26_MasteredCardsMatchLevel ==
  (resp.op = "dashboard" /\ resp.status = 200) =>
    resp.learningProgress.masteredCards =
      Cardinality({ f \in DOMAIN flashcards :
                      /\ flashcards[f].contentId \in DOMAIN contents
                      /\ contents[flashcards[f].contentId].userId = resp.user
                      /\ ClaimedLevel(flashcards[f].reviewCount, flashcards[f].difficulty)
                           = "mastered" })

C28_StatsRequestGetsStatistics ==
  [][ \A u \in Users :
        ContentGet(u, "stats") =>
          /\ resp'.op = "stats"
          /\ resp'.status = 200
          /\ resp'.user = u ]_vars

\* The answers whose questionId names a question of the quiz.
KnownAnswers(quiz, answers) ==
  SelectSeq(answers, LAMBDA a : a.questionId \in 1..Len(quiz.questions))

\* C29: for every quiz and every submitted answer list, duplicates, unknown
\* questionIds and missing answers included, calculateScore is an integer in
\* 0..100, and so is every stored attempt score; each question's weight is
\* earned at most once, and answers for unknown questions change nothing.
C29_ScoreWithinPercentRange ==
  /\ \A id \in DOMAIN quizzes :
       /\ \A i \in 1..Len(quizzes[id].attempts) : quizzes[id].attempts[i].score \in 0..100
       /\ submission # NoSubmission =>
            LET quiz == quizzes[id]
                p == scorePoints(quiz.questions, submission.answers, Len(quiz.questions))
            IN  /\ calculateScore(quiz.questions, submission.answers) \in 0..100
                /\ p[1] = TotalWeight(quiz)
                /\ 0 <= p[2] /\ p[2] <= p[1]
                /\ calculateScore(quiz.questions, submission.answers)
                     = calculateScore(quiz.questions, KnownAnswers(quiz, submission.answers))
  /\ AttemptOk =>
       /\ resp.score \in 0..100
       /\ resp.score = calculateScore(Scored.questions, submission.answers)

\* An attempt with two correct-flagged answers for the only question is
\* scored 100.
C29_Witness ==
  /\ AttemptOk
  /\ Len(Scored.questions) = 1
  /\ submission.answers = <<[questionId |-> 1, isCorrect |-> TRUE],
                            [questionId |-> 1, isCorrect |-> TRUE]>>
  /\ resp.score = 100
  /\ Scored.attempts[resp.totalAttempts].score = 100

\* The caller of slot s owns the parent content of the flashcard it loaded.
CallerOwns(s) ==
  /\ reqs[s].doc.contentId \in DOMAIN contents
  /\ contents[reqs[s].doc.contentId].userId = reqs[s].user

\* C30: a review request whose caller does not own the flashcard's parent
\* content at the ownership check, the content being another user's or
\* deleted, is answered 403 and ends without a save; only requests that
\* passed the check change a flashcard, so no request changes a flashcard
\* of content owned by another user.
C30_ForeignReviewRefused ==
  [][ /\ \A s \in Slots :
           (reqs[s] # Idle /\ reqs[s].pc = "own" /\ reqs'[s] # reqs[s]) =>
             IF CallerOwns(s)
               THEN reqs'[s] # Idle /\ reqs'[s].pc = "save" /\ flashcards' = flashcards
               ELSE /\ reqs'[s] = Idle
                    /\ resp' = [op |-> "review", status |-> 403]
                    /\ flashcards' = flashcards
      /\ \A f \in DOMAIN flashcards :
           (f \in DOMAIN flashcards' /\ flashcards'[f] # flashcards[f]) =>
             \E s \in Slots :
               /\ reqs[s] # Idle /\ reqs[s].pc = "save" /\ reqs[s].id = f
               /\ reqs'[s] = Idle
               /\ flashcards[f].contentId \in DOMAIN contents
                    => contents[flashcards[f].contentId].userId = reqs[s].user ]_vars

\* A request for a flashcard that was reviewed once and whose content was
\* then deleted has been refused.
C30_Witness ==
  /\ resp = [op |-> "review", status |-> 403]
  /\ flashcards[1].contentId \notin DOMAIN contents
  /\ flashcards[1].reviewCount = 1
  /\ reviewsDone[1] = 1
  /\ \A s \in Slots : reqs[s] = Idle

====
